---- MODULE Spec2Model ----
(***************************************************************************)
(* Model of app.py, the CEDEAR arbitrage calculator: the price and ticker  *)
(* normalisers, header discovery, the table loader, the inner join on the  *)
(* ticker and the implied-rate / gap arithmetic with its view filter.      *)
(*                                                                         *)
(* Text is a sequence of one-character strings.  A float is an exact       *)
(* rational [k |-> "fin", n, d] in lowest terms, or one of the IEEE        *)
(* specials inf, -inf, nan that pandas produces on division by zero;       *)
(* binary rounding and the sign of zero are not modelled.  A sheet is a    *)
(* sequence of rows of cells; header rows with two equal labels (which     *)
(* pandas renames) are not among the files tried.                          *)
(***************************************************************************)
EXTENDS Integers, Sequences, FiniteSets, TLC

VARIABLES pc, val, price, simbolo_str, is_usd_file, ticker, df, header_idx,
          file_ars, file_usd, dolar_mep_manual, filtro,
          df_ars, df_usd, df_merged, df_show, errors

vars == <<pc, val, price, simbolo_str, is_usd_file, ticker, df, header_idx,
          file_ars, file_usd, dolar_mep_manual, filtro,
          df_ars, df_usd, df_merged, df_show, errors>>

\* ------------------------------------------------------------------ bounds

\* longest generated price text
MaxLen == 3
\* longest generated separator body placed after a currency token
MaxBody == 3
\* longest generated symbol text
MaxSym == 3
\* most rows of a generated grid given to find_header_row
MaxRows == 2
\* most data rows of a generated quote file
MaxData == 2

\* ------------------------------------------------------------------ text

Digits == {"0", "1", "2", "3", "4", "5", "6", "7", "8", "9"}

DigitVal(c) ==
  CASE c = "0" -> 0 [] c = "1" -> 1 [] c = "2" -> 2 [] c = "3" -> 3
    [] c = "4" -> 4 [] c = "5" -> 5 [] c = "6" -> 6 [] c = "7" -> 7
    [] c = "8" -> 8 [] c = "9" -> 9

DigitChar(i) ==
  CASE i = 0 -> "0" [] i = 1 -> "1" [] i = 2 -> "2" [] i = 3 -> "3"
    [] i = 4 -> "4" [] i = 5 -> "5" [] i = 6 -> "6" [] i = 7 -> "7"
    [] i = 8 -> "8" [] i = 9 -> "9"

\* str.lower / re.IGNORECASE folding, on the letters the model's texts use
Lower(c) ==
  CASE c = "A" -> "a" [] c = "R" -> "r" [] c = "S" -> "s" [] c = "U" -> "u"
    [] c = "D" -> "d" [] c = "Í" -> "í" [] c = "M" -> "m" [] c = "B" -> "b"
    [] c = "O" -> "o" [] c = "L" -> "l" [] c = "G" -> "g" [] c = "P" -> "p"
    [] OTHER -> c

IsSpace(c) == c = " "

RECURSIVE LStrip(_)
LStrip(s) ==
  IF s # <<>> /\ IsSpace(Head(s)) THEN LStrip(Tail(s)) ELSE s

RECURSIVE RStrip(_)
RStrip(s) ==
  IF s # <<>> /\ IsSpace(s[Len(s)]) THEN RStrip(SubSeq(s, 1, Len(s) - 1)) ELSE s

\* str.strip()
Strip(s) == RStrip(LStrip(s))

\* ch in s
Contains(s, ch) == \E i \in 1..Len(s) : s[i] = ch

\* str.find(ch): 0-based index of the first occurrence, -1 when absent
Find(s, ch) ==
  IF Contains(s, ch)
  THEN (CHOOSE i \in 1..Len(s) : s[i] = ch /\ \A j \in 1..(i - 1) : s[j] # ch) - 1
  ELSE -1

\* str.replace(ch, rep) for a one-character ch
RECURSIVE Replace(_, _, _)
Replace(s, ch, rep) ==
  IF s = <<>> THEN <<>>
  ELSE (IF Head(s) = ch THEN rep ELSE <<Head(s)>>) \o Replace(Tail(s), ch, rep)

\* s.startswith(p), case folded
StartsWithFold(s, p) ==
  /\ Len(s) >= Len(p)
  /\ \A i \in 1..Len(p) : Lower(s[i]) = Lower(p[i])

\* length of the currency token (ARS|USD|\$) matched at the head of s, 0 if none
TokenLen(s) ==
  IF StartsWithFold(s, <<"A", "R", "S">>) \/ StartsWithFold(s, <<"U", "S", "D">>) THEN 3
  ELSE IF s # <<>> /\ Head(s) = "$" THEN 1
  ELSE 0

\* re.sub(r'(ARS|USD|\$)\s*', '', s, flags=re.IGNORECASE): leftmost matches,
\* each with the whitespace that follows it, are deleted
RECURSIVE ReSubCurrency(_)
ReSubCurrency(s) ==
  IF s = <<>> THEN <<>>
  ELSE IF TokenLen(s) > 0
       THEN ReSubCurrency(LStrip(SubSeq(s, TokenLen(s) + 1, Len(s))))
       ELSE <<Head(s)>> \o ReSubCurrency(Tail(s))

\* ------------------------------------------------------------------ floats

RECURSIVE GCD(_, _)
GCD(a, b) == IF b = 0 THEN a ELSE GCD(b, a % b)

Abs(x) == IF x < 0 THEN -x ELSE x

RECURSIVE Pow10(_)
Pow10(k) == IF k = 0 THEN 1 ELSE 10 * Pow10(k - 1)

\* the float n/d (d > 0), in lowest terms
Fin(n, d) ==
  LET g == GCD(Abs(n), d) IN [k |-> "fin", n |-> n \div g, d |-> d \div g]

Inf == [k |-> "inf", n |-> 1, d |-> 0]
NegInf == [k |-> "-inf", n |-> -1, d |-> 0]
NaN == [k |-> "nan", n |-> 0, d |-> 0]
\* Python's None, and the ValueError float() raises
None == [k |-> "None", n |-> 0, d |-> 1]
ValueError == [k |-> "ValueError", n |-> 0, d |-> 1]

IsFin(x) == x.k = "fin"
IsNumber(x) == x.k \in {"fin", "inf", "-inf", "nan"}

RECURSIVE DigitsValue(_)
DigitsValue(s) ==
  IF s = <<>> THEN 0 ELSE 10 * DigitsValue(SubSeq(s, 1, Len(s) - 1)) + DigitVal(s[Len(s)])

\* float(s) on a text of digits, '.', and a leading '-': the decimal literal's
\* value, or ValueError.  (Exponents, '+', '_', 'inf' and 'nan' need
\* characters no text of the model has.)
ParseFloat(s) ==
  LET neg == s # <<>> /\ Head(s) = "-"
      body == IF neg THEN Tail(s) ELSE s
      digs == Replace(body, ".", <<>>)
      ok == /\ digs # <<>>
            /\ \A i \in 1..Len(digs) : digs[i] \in Digits
            /\ Len(body) - Len(digs) <= 1
      frac == IF Contains(body, ".") THEN Len(body) - Find(body, ".") - 1 ELSE 0
      mag == DigitsValue(digs)
  IN IF ok THEN Fin(IF neg THEN -mag ELSE mag, Pow10(frac)) ELSE ValueError

RECURSIVE IntStr(_)
IntStr(i) ==
  IF i < 0 THEN <<"-">> \o IntStr(-i)
  ELSE IF i < 10 THEN <<DigitChar(i)>>
  ELSE IntStr(i \div 10) \o <<DigitChar(i % 10)>>

RECURSIVE FracStr(_, _)
FracStr(r, d) ==
  IF r = 0 THEN <<>>
  ELSE <<DigitChar((10 * r) \div d)>> \o FracStr((10 * r) % d, d)

\* str(x) of a finite float with a short decimal expansion: the integer part,
\* the point, and the fraction's digits ("1400.5", "1400.0")
FloatStr(x) ==
  LET neg == x.n < 0
      a == Abs(x.n)
      fr == FracStr(a % x.d, x.d)
  IN (IF neg THEN <<"-">> ELSE <<>>) \o IntStr(a \div x.d) \o <<".">>
       \o (IF fr = <<>> THEN <<"0">> ELSE fr)

\* ------------------------------------------------------------------ cells

\* a spreadsheet cell: text, an integer, a float, or empty (NaN)
StrCell(s) == [t |-> "str", s |-> s, v |-> None]
IntCell(i) == [t |-> "int", s |-> <<>>, v |-> Fin(i, 1)]
FloatCell(x) == [t |-> "float", s |-> <<>>, v |-> x]
NaNCell == [t |-> "nan", s |-> <<>>, v |-> NaN]

\* pd.isna(cell)
IsNa(c) == c.t = "nan"

\* str(cell)
Str(c) ==
  CASE c.t = "str" -> c.s
    [] c.t = "int" -> IntStr(c.v.n)
    [] c.t = "float" -> FloatStr(c.v)
    [] c.t = "nan" -> <<"n", "a", "n">>

\* ------------------------------------------------------------------ clean_price

\* faulty variant: a lone ',' taken for a thousands separator
Separators_CommaThousands(s) ==
  IF Contains(s, ",") /\ Contains(s, ".")
  THEN IF Find(s, ".") < Find(s, ",")
       THEN Replace(Replace(s, ".", <<>>), ",", <<".">>)
       ELSE Replace(s, ",", <<>>)
  ELSE Replace(Replace(s, ",", <<>>), ".", <<>>)

\* the separator rewriting of lines 34-51
Separators(s) ==
  IF Contains(s, ",") /\ Contains(s, ".")
  THEN IF Find(s, ".") < Find(s, ",")
       THEN Replace(Replace(s, ".", <<>>), ",", <<".">>)
       ELSE Replace(s, ",", <<>>)
  ELSE IF Contains(s, ",")
       THEN Replace(s, ",", <<".">>)
       ELSE Replace(s, ".", <<>>)

\* faulty variant: no except clause, the ValueError escapes
TryFloat_Uncaught(s) == ParseFloat(s)

\* try: return float(val_str)  except ValueError: return None
TryFloat(s) ==
  LET r == ParseFloat(s) IN IF r = ValueError THEN None ELSE r

clean_price(c) ==
  IF IsNa(c) \/ Strip(Str(c)) = <<"-">>
  THEN None
  ELSE TryFloat(Separators(Strip(ReSubCurrency(Str(c)))))

\* ------------------------------------------------------------------ extract_ticker

\* Python's None where a ticker is expected
NoneCell == [t |-> "None", s |-> <<>>, v |-> None]

\* s.split('|')[0]
SplitPipeHead(s) ==
  IF Contains(s, "|") THEN SubSeq(s, 1, Find(s, "|")) ELSE s

\* s.endswith('D')
EndsWithD(s) == s # <<>> /\ s[Len(s)] = "D"

\* faulty variant: the trailing 'D' dropped on local listings too
extract_ticker_AnyListing(c, is_usd) ==
  IF IsNa(c) THEN NoneCell
  ELSE LET tk == Strip(SplitPipeHead(c.s))
       IN IF EndsWithD(tk)
          THEN StrCell(SubSeq(tk, 1, Len(tk) - 1))
          ELSE StrCell(tk)

extract_ticker(c, is_usd) ==
  IF IsNa(c) THEN NoneCell
  ELSE LET tk == Strip(SplitPipeHead(c.s))
       IN IF is_usd /\ EndsWithD(tk)
          THEN StrCell(SubSeq(tk, 1, Len(tk) - 1))
          ELSE StrCell(tk)

\* ------------------------------------------------------------------ find_header_row

cSimbolo == <<"S", "í", "m", "b", "o", "l", "o">>
cUltimoPrecio == <<"Ú", "l", "t", "i", "m", "o", " ", "P", "r", "e", "c", "i", "o">>

\* Series.str.contains(p, case=False) on one text: p occurs in s, case folded
ContainsFold(s, p) ==
  \E i \in 1..(Len(s) - Len(p) + 1) : StartsWithFold(SubSeq(s, i, Len(s)), p)

\* row.astype(str).str.contains("Símbolo", case=False).any()
RowHasMarker(row) ==
  \E j \in 1..Len(row) : ContainsFold(Str(row[j]), cSimbolo)

\* faulty variant: the loop does not stop at the first match
find_header_row_Last(grid) ==
  IF \E i \in 1..Len(grid) : RowHasMarker(grid[i])
  THEN (CHOOSE i \in 1..Len(grid) :
          RowHasMarker(grid[i]) /\ \A j \in (i + 1)..Len(grid) : ~RowHasMarker(grid[j])) - 1
  ELSE 0

\* the rows are numbered from 0, as df.iterrows() numbers them
find_header_row(grid) ==
  IF \E i \in 1..Len(grid) : RowHasMarker(grid[i])
  THEN (CHOOSE i \in 1..Len(grid) :
          RowHasMarker(grid[i]) /\ \A j \in 1..(i - 1) : ~RowHasMarker(grid[j])) - 1
  ELSE 0

\* ------------------------------------------------------------------ float arithmetic

Sign(x) ==
  CASE x.k = "inf" -> 1 [] x.k = "-inf" -> -1
    [] x.k = "fin" -> (IF x.n > 0 THEN 1 ELSE IF x.n < 0 THEN -1 ELSE 0)
    [] OTHER -> 0

SignedInf(s) == IF s > 0 THEN Inf ELSE NegInf

\* a / b as numpy divides float64 (zeros are +0.0): x/0 is inf, -inf or nan
FDiv(a, b) ==
  IF a.k = "nan" \/ b.k = "nan" THEN NaN
  ELSE IF IsFin(a) /\ IsFin(b)
       THEN IF b.n # 0
            THEN Fin(a.n * b.d * Sign(b), a.d * Abs(b.n))
            ELSE IF a.n = 0 THEN NaN ELSE SignedInf(Sign(a))
  ELSE IF IsFin(a) THEN Fin(0, 1)
  ELSE IF IsFin(b) THEN SignedInf(IF b.n = 0 THEN Sign(a) ELSE Sign(a) * Sign(b))
  ELSE NaN

\* a - b for a finite b
FSub(a, b) ==
  IF a.k = "nan" THEN NaN
  ELSE IF IsFin(a) THEN Fin(a.n * b.d - b.n * a.d, a.d * b.d)
  ELSE a

\* a * b for a finite b > 0
FMul(a, b) ==
  IF a.k = "nan" THEN NaN
  ELSE IF IsFin(a) THEN Fin(a.n * b.n, a.d * b.d)
  ELSE a

\* a < b on floats: false when either is nan
FLt(a, b) ==
  IF a.k = "nan" \/ b.k = "nan" THEN FALSE
  ELSE IF IsFin(a) /\ IsFin(b) THEN a.n * b.d < b.n * a.d
  ELSE IF a.k = b.k THEN FALSE
  ELSE a.k = "-inf" \/ b.k = "inf"

FGt(a, b) == FLt(b, a)

\* ------------------------------------------------------------------ load_and_process

\* the column label pandas gives an empty header cell: 'Unnamed: j'
Unnamed(j) == <<"U", "n", "n", "a", "m", "e", "d", ":", " ">> \o IntStr(j)

\* the column labels read_excel takes from the header row: a text or a number
\* as it stands, an empty cell as 'Unnamed: j' (j counted from 0)
HeaderLabels(row) ==
  [j \in 1..Len(row) |-> IF IsNa(row[j]) THEN StrCell(Unnamed(j - 1)) ELSE row[j]]

IsNumeric(c) == c.t \in {"int", "float"}

\* one data column as read_excel types it: a column of numbers and empty cells
\* with an empty cell or a float in it is float64, so its integers are floats
ColumnCell(rows, i, j) ==
  LET col == [r \in 1..Len(rows) |-> rows[r][j]]
      numeric == \A r \in 1..Len(rows) : IsNumeric(col[r]) \/ IsNa(col[r])
      floating == \E r \in 1..Len(rows) : col[r].t = "float" \/ IsNa(col[r])
  IN IF numeric /\ floating /\ col[i].t = "int" THEN FloatCell(col[i].v) ELSE col[i]

\* pd.read_excel(file, header=h): the labels of row h and the rows below it
read_excel(grid, h) ==
  LET body == SubSeq(grid, h + 2, Len(grid))
  IN [columns |-> HeaderLabels(grid[h + 1]),
      data |-> [i \in 1..Len(body) |->
                  [j \in 1..Len(body[i]) |-> ColumnCell(body, i, j)]]]

\* df.columns.str raises AttributeError on an index of numbers only
StrAccessorRaises(columns) == \A j \in 1..Len(columns) : IsNumeric(columns[j])

\* df.columns.str.strip(): texts stripped, numbers (no text) become NaN
StripColumns(columns) ==
  [j \in 1..Len(columns) |->
     IF columns[j].t = "str" THEN StrCell(Strip(columns[j].s)) ELSE NaNCell]

\* name in df.columns
HasColumn(columns, name) == \E j \in 1..Len(columns) : columns[j] = StrCell(name)

ColumnOf(columns, name) == CHOOSE j \in 1..Len(columns) : columns[j] = StrCell(name)

\* st.error(...) of line 85: the text names both columns and the file
ErrorMessage(is_usd) ==
  [columnas |-> {cSimbolo, cUltimoPrecio}, archivo |-> IF is_usd THEN "USD" ELSE "ARS"]

\* df[['Ticker', 'Precio']].dropna()
RECURSIVE DropNa(_)
DropNa(rows) ==
  IF rows = <<>> THEN <<>>
  ELSE (IF Head(rows).Ticker = NoneCell \/ ~IsNumber(Head(rows).Precio)
             \/ Head(rows).Precio.k = "nan"
        THEN <<>> ELSE <<Head(rows)>>) \o DropNa(Tail(rows))

Unset == [st |-> "unset", rows |-> <<>>, error |-> {}]
Raised(e) == [st |-> e, rows |-> <<>>, error |-> {}]

\* the value load_and_process returns ("df" or "None", with what st.error
\* showed), or the exception it raises
load_and_process(file, is_usd) ==
  LET header == find_header_row(file)
      sheet == read_excel(file, header)
  IN IF StrAccessorRaises(sheet.columns) THEN Raised("AttributeError")
     ELSE LET columns == StripColumns(sheet.columns)
          IN IF ~HasColumn(columns, cSimbolo) \/ ~HasColumn(columns, cUltimoPrecio)
             THEN [st |-> "None", rows |-> <<>>, error |-> {ErrorMessage(is_usd)}]
             ELSE LET js == ColumnOf(columns, cSimbolo)
                      jp == ColumnOf(columns, cUltimoPrecio)
                  IN IF \E i \in 1..Len(sheet.data) : IsNumeric(sheet.data[i][js])
                     THEN Raised("AttributeError")
                     ELSE
                     [st |-> "df",
                      rows |-> DropNa([i \in 1..Len(sheet.data) |->
                                 [Ticker |-> extract_ticker(sheet.data[i][js], is_usd),
                                  Precio |-> clean_price(sheet.data[i][jp])]]),
                      error |-> {}]

\* ------------------------------------------------------------------ merge, rates, views

\* faulty variant: a left row joined with the first right row of its ticker only
RECURSIVE MatchesOf_First(_, _)
MatchesOf_First(l, right) ==
  IF right = <<>> THEN <<>>
  ELSE IF Head(right).Ticker = l.Ticker
       THEN <<[Ticker |-> l.Ticker, Precio_ARS |-> l.Precio, Precio_USD |-> Head(right).Precio]>>
       ELSE MatchesOf_First(l, Tail(right))

RECURSIVE MatchesOf(_, _)
MatchesOf(l, right) ==
  IF right = <<>> THEN <<>>
  ELSE (IF Head(right).Ticker = l.Ticker
        THEN <<[Ticker |-> l.Ticker, Precio_ARS |-> l.Precio, Precio_USD |-> Head(right).Precio]>>
        ELSE <<>>) \o MatchesOf(l, Tail(right))

\* pd.merge(left, right, on='Ticker', suffixes=('_ARS', '_USD')): the inner
\* join, every left row with every right row of its ticker, in left order
RECURSIVE merge(_, _)
merge(left, right) ==
  IF left = <<>> THEN <<>>
  ELSE MatchesOf(Head(left), right) \o merge(Tail(left), right)

TC_Implicito(row) == FDiv(row.Precio_ARS, row.Precio_USD)

\* faulty variant: the ratio taken the other way round
Gap_Inverted(tc, mep) == FMul(FSub(FDiv(mep, tc), Fin(1, 1)), Fin(100, 1))

Gap(tc, mep) == FMul(FSub(FDiv(tc, mep), Fin(1, 1)), Fin(100, 1))

\* lines 136-141: the two derived columns, and the row's index label
Calculate(rows, mep) ==
  [i \in 1..Len(rows) |->
     [index |-> i - 1, Ticker |-> rows[i].Ticker,
      Precio_ARS |-> rows[i].Precio_ARS, Precio_USD |-> rows[i].Precio_USD,
      TC_Implicito |-> TC_Implicito(rows[i]),
      Gap |-> Gap(TC_Implicito(rows[i]), mep)]]

Todos == "Todos"
MasBaratos == "Más baratos que el MEP (Compra ARS)"
MasCaros == "Más caros que el MEP (Venta ARS)"
Filtros == {Todos, MasBaratos, MasCaros}

RECURSIVE SelectRows(_, _, _)
SelectRows(rows, f, mep) ==
  IF rows = <<>> THEN <<>>
  ELSE (IF \/ f = MasBaratos /\ FLt(Head(rows).TC_Implicito, mep)
           \/ f = MasCaros /\ FGt(Head(rows).TC_Implicito, mep)
           \/ f = Todos
        THEN <<Head(rows)>> ELSE <<>>) \o SelectRows(Tail(rows), f, mep)

SortKey(row, f) == IF f = Todos THEN row.Gap ELSE row.TC_Implicito

\* a goes before b in sort_values: ascending except in the 'Más caros' view, NaN last
Before(a, b, f) ==
  \/ a.k # "nan" /\ b.k = "nan"
  \/ IF f = MasCaros THEN FGt(a, b) ELSE FLt(a, b)

RECURSIVE InsertSorted(_, _, _)
InsertSorted(sorted, row, f) ==
  IF sorted = <<>> THEN <<row>>
  ELSE IF Before(SortKey(row, f), SortKey(Head(sorted), f), f)
       THEN <<row>> \o sorted
       ELSE <<Head(sorted)>> \o InsertSorted(Tail(sorted), row, f)

RECURSIVE SortValues(_, _)
SortValues(rows, f) ==
  IF rows = <<>> THEN <<>>
  ELSE InsertSorted(SortValues(SubSeq(rows, 1, Len(rows) - 1), f), rows[Len(rows)], f)

\* lines 150-156: the rows the chosen view keeps, sorted
View(rows, f, mep) == SortValues(SelectRows(rows, f, mep), f)

\* ------------------------------------------------------------------ inputs

SeqsUpTo(S, n) == UNION {[1..m -> S] : m \in 0..n}

S_ARS == <<"A", "R", "S">>
S_ars == <<"a", "r", "s">>
S_Ars == <<"A", "r", "s">>
S_USD == <<"U", "S", "D">>
S_usd == <<"u", "s", "d">>
Tokens == {<<>>, S_ARS, S_ars, S_Ars, S_USD, S_usd, <<"$">>}
Pads == {<<>>, <<" ">>}

t1400_50 == <<"1", ".", "4", "0", "0", ",", "5", "0">>
t1000_00 == <<"1", ".", "0", "0", "0", ",", "0", "0">>
t1234_56 == <<"1", ",", "2", "3", "4", ".", "5", "6">>
t2_115 == <<"2", ",", "1", "1", "5">>
t1_500 == <<"1", ".", "5", "0", "0">>
t1_1_1 == <<"1", ",", "1", ",", "1">>

\* the texts of digits and separators a currency token is put around
Bodies ==
  SeqsUpTo({"1", "5", ".", ","}, MaxBody)
    \cup {t1400_50, t1000_00, t1234_56, t2_115, t1_500, t1_1_1}

Wrap(pre, tok, sep, body, post) == pre \o tok \o sep \o body \o post

\* token before the number, or after it
WrappedTexts ==
  {Wrap(pre, tok, sep, body, post) :
     pre \in Pads, tok \in Tokens, sep \in Pads, body \in Bodies, post \in Pads}
    \cup {Wrap(pre, body, sep, tok, post) :
             pre \in Pads, tok \in Tokens, sep \in Pads, body \in Bodies, post \in Pads}

\* arbitrary short texts, the placeholder '-' and blanks among them
LooseTexts == SeqsUpTo({"1", "0", ".", ",", "-", " ", "A"}, MaxLen)

NumericCells ==
  {IntCell(0), IntCell(5), IntCell(1400), IntCell(-3),
   FloatCell(Fin(14005, 10)), FloatCell(Fin(1400, 1)), FloatCell(Fin(2115, 1000)),
   FloatCell(Fin(1, 2)), FloatCell(Fin(-15, 10))}

PriceCells ==
  {StrCell(s) : s \in WrappedTexts \cup LooseTexts} \cup NumericCells \cup {NaNCell}

sAAPLD == <<"A", "A", "P", "L", "D", "|", " ", "N", "A", "S", "D", "A", "Q">>
sGGAL == <<"G", "G", "A", "L", "|", " ", "B", "Y", "M", "A">>
sADDD == <<"A", "D", "D", "D">>
sAMD == <<"A", "M", "D">>

SymbolCells ==
  {StrCell(s) : s \in SeqsUpTo({"A", "D", "|", " "}, MaxSym)
                        \cup {sAAPLD, sGGAL, sADDD, sAMD}} \cup {NaNCell}

cSIMBOLO == <<"S", "Í", "M", "B", "O", "L", "O">>
cSimbolos == cSimbolo \o <<"s">>
cSimboloPad == <<" ">> \o cSimbolo \o <<" ">>
cUltimoPrecioPad == cUltimoPrecio \o <<" ">>
cPrecio == <<"P", "r", "e", "c", "i", "o">>
cTicker == <<"T", "i", "c", "k", "e", "r">>
cBYMA == <<"B", "Y", "M", "A">>

\* the cells of the grids find_header_row is tried on
MarkerCells ==
  {StrCell(cSimbolo), StrCell(cSIMBOLO), StrCell(cSimbolos), StrCell(cTicker),
   NaNCell, IntCell(7)}

HeaderGrids == SeqsUpTo({<<a, b>> : a \in MarkerCells, b \in {StrCell(cPrecio), NaNCell}}, MaxRows)

\* header rows of quote files: the symbol header and the price header, as
\* exported or misspelt, padded, missing or numeric
SymbolHeaders ==
  {StrCell(cSimbolo), StrCell(cSimboloPad), StrCell(cSIMBOLO), StrCell(cSimbolos),
   StrCell(cTicker), NaNCell}
PriceHeaders ==
  {StrCell(cUltimoPrecio), StrCell(cUltimoPrecioPad), StrCell(cPrecio), IntCell(5)}
HeaderRows == {<<a, b>> : a \in SymbolHeaders, b \in PriceHeaders}
GoodHeader == <<StrCell(cSimbolo), StrCell(cUltimoPrecio)>>
TitleRow == <<StrCell(cBYMA), NaNCell>>

ArsRows ==
  {<<StrCell(<<"G", "|", " ", "B">>), StrCell(t1000_00)>>,
   <<StrCell(<<"G">>), IntCell(900)>>,
   <<StrCell(<<"G">>), StrCell(<<"0">>)>>,
   <<StrCell(sAMD), StrCell(<<"5">>)>>}

UsdRows ==
  {<<StrCell(<<"G", "D", "|", " ", "N">>), StrCell(<<"1">>)>>,
   <<StrCell(<<"G", "D">>), StrCell(<<"0">>)>>,
   <<StrCell(<<"G", "D">>), StrCell(<<"-", "4">>)>>,
   <<StrCell(<<"X", "D">>), StrCell(<<"-">>)>>,
   <<NaNCell, NaNCell>>}

\* None: nothing uploaded
NoFile == <<>>

\* files with the exported header and up to MaxData quotes
DataFiles(rows) == {<<GoodHeader>> \o d : d \in SeqsUpTo(rows, MaxData)}

\* files with one quote under each header row, under a title row, under no
\* header at all, under a row of numbers, and with a number as the symbol
HeaderFiles(row) ==
  {<<h, row>> : h \in HeaderRows}
    \cup {<<TitleRow, h, row>> : h \in {GoodHeader, <<StrCell(cSIMBOLO), StrCell(cUltimoPrecio)>>}}
    \cup {<<row>>, <<TitleRow, row>>, <<<<IntCell(7), IntCell(5)>>, row>>,
          <<GoodHeader, <<IntCell(7), StrCell(<<"5">>)>>>>}

ArsQuote == <<StrCell(<<"G", "|", " ", "B">>), StrCell(t1000_00)>>
UsdQuote == <<StrCell(<<"G", "D", "|", " ", "N">>), StrCell(<<"1">>)>>

FilePairs ==
  (DataFiles(ArsRows) \X DataFiles(UsdRows))
    \cup (HeaderFiles(ArsQuote) \X HeaderFiles(UsdQuote))
    \cup {<<NoFile, <<GoodHeader>>>>, <<<<GoodHeader>>, NoFile>>, <<NoFile, NoFile>>}

\* reference rates the number_input accepts (min_value=0.0)
Meps == {Fin(0, 1), Fin(900, 1), Fin(1000, 1), Fin(1100, 1)}

\* ------------------------------------------------------------------ the script

HarnessIdle ==
  /\ val = NaNCell /\ price = None
  /\ simbolo_str = NaNCell /\ is_usd_file = FALSE /\ ticker = NoneCell
  /\ df = <<>> /\ header_idx = 0

ScriptIdle ==
  /\ file_ars = NoFile /\ file_usd = NoFile
  /\ dolar_mep_manual = Fin(1100, 1) /\ filtro = Todos
  /\ df_ars = Unset /\ df_usd = Unset
  /\ df_merged = <<>> /\ df_show = <<>> /\ errors = {}

harness == <<val, price, simbolo_str, is_usd_file, ticker, df, header_idx>>
inputs == <<file_ars, file_usd, dolar_mep_manual>>

Init ==
  /\ pc = "start"
  /\ HarnessIdle
  /\ \E fp \in FilePairs : file_ars = fp[1] /\ file_usd = fp[2]
  /\ dolar_mep_manual \in Meps
  /\ filtro = Todos
  /\ df_ars = Unset /\ df_usd = Unset
  /\ df_merged = <<>> /\ df_show = <<>> /\ errors = {}

\* line 121 false: one of the files is not uploaded, st.info asks for both
AskUpload ==
  /\ pc = "start"
  /\ file_ars = NoFile \/ file_usd = NoFile
  /\ pc' = "done"
  /\ UNCHANGED <<harness, inputs, filtro, df_ars, df_usd, df_merged, df_show, errors>>

\* line 123
LoadArs ==
  /\ pc = "start"
  /\ file_ars # NoFile /\ file_usd # NoFile
  /\ df_ars' = load_and_process(file_ars, FALSE)
  /\ errors' = errors \cup df_ars'.error
  /\ pc' = IF df_ars'.st \in {"df", "None"} THEN "load_usd" ELSE "crashed"
  /\ UNCHANGED <<harness, inputs, filtro, df_usd, df_merged, df_show>>

\* line 124
LoadUsd ==
  /\ pc = "load_usd"
  /\ df_usd' = load_and_process(file_usd, TRUE)
  /\ errors' = errors \cup df_usd'.error
  /\ pc' = IF df_usd'.st \in {"df", "None"} THEN "merge" ELSE "crashed"
  /\ UNCHANGED <<harness, inputs, filtro, df_ars, df_merged, df_show>>

\* lines 126-141
MergeAndCalculate ==
  /\ pc = "merge"
  /\ df_ars.st = "df" /\ df_usd.st = "df"
  /\ df_merged' = Calculate(merge(df_ars.rows, df_usd.rows), dolar_mep_manual)
  /\ pc' = "show"
  /\ UNCHANGED <<harness, inputs, filtro, df_ars, df_usd, df_show, errors>>

\* line 126 false: a load returned None, nothing more is shown
SkipAnalysis ==
  /\ pc = "merge"
  /\ df_ars.st = "None" \/ df_usd.st = "None"
  /\ pc' = "done"
  /\ UNCHANGED <<harness, inputs, filtro, df_ars, df_usd, df_merged, df_show, errors>>

\* lines 148-167: the radio's choice, the view, the table
Show ==
  /\ pc = "show"
  /\ \E f \in Filtros :
       /\ filtro' = f
       /\ df_show' = View(df_merged, f, dolar_mep_manual)
  /\ pc' = "shown"
  /\ UNCHANGED <<harness, inputs, df_ars, df_usd, df_merged, errors>>

Next == AskUpload \/ LoadArs \/ LoadUsd \/ MergeAndCalculate \/ SkipAnalysis \/ Show

Spec == Init /\ [][Next]_vars

\* ------------------------------------------------------------------ the functions alone

script == <<file_ars, file_usd, dolar_mep_manual, filtro,
            df_ars, df_usd, df_merged, df_show, errors>>

InitClean ==
  /\ pc = "call" /\ ScriptIdle
  /\ val \in PriceCells /\ price = None
  /\ simbolo_str = NaNCell /\ is_usd_file = FALSE /\ ticker = NoneCell
  /\ df = <<>> /\ header_idx = 0

CallCleanPrice ==
  /\ pc = "call"
  /\ price' = clean_price(val)
  /\ pc' = "return"
  /\ UNCHANGED <<script, val, simbolo_str, is_usd_file, ticker, df, header_idx>>

SpecClean == InitClean /\ [][CallCleanPrice]_vars

InitTicker ==
  /\ pc = "call" /\ ScriptIdle
  /\ val = NaNCell /\ price = None
  /\ simbolo_str \in SymbolCells /\ is_usd_file \in BOOLEAN /\ ticker = NoneCell
  /\ df = <<>> /\ header_idx = 0

CallExtractTicker ==
  /\ pc = "call"
  /\ ticker' = extract_ticker(simbolo_str, is_usd_file)
  /\ pc' = "return"
  /\ UNCHANGED <<script, val, price, simbolo_str, is_usd_file, df, header_idx>>

SpecTicker == InitTicker /\ [][CallExtractTicker]_vars

InitHeader ==
  /\ pc = "call" /\ ScriptIdle
  /\ val = NaNCell /\ price = None
  /\ simbolo_str = NaNCell /\ is_usd_file = FALSE /\ ticker = NoneCell
  /\ df \in HeaderGrids /\ header_idx = 0

CallFindHeaderRow ==
  /\ pc = "call"
  /\ header_idx' = find_header_row(df)
  /\ pc' = "return"
  /\ UNCHANGED <<script, val, price, simbolo_str, is_usd_file, ticker, df>>

SpecHeader == InitHeader /\ [][CallFindHeaderRow]_vars

\* ------------------------------------------------------------------ claims on clean_price

Returned == pc = "return"

\* C1: a numeric cell (integer or decimal) comes back as the same value, as a
\* float, with no separator rewriting.
C1_NumericUnchanged ==
  (Returned /\ IsNumeric(val)) => price = val.v

\* the rule of C2, stated on the text between token and padding
C2_Separator(c) == c \in {".", ","}
C2_DotFirst(b) ==
  \E i \in 1..Len(b) : b[i] = "." /\ \A j \in 1..i : b[j] # ","
C2_Without(b, ch) == SelectSeq(b, LAMBDA c : c # ch)
C2_CommaAsPoint(b) == [i \in 1..Len(b) |-> IF b[i] = "," THEN "." ELSE b[i]]
C2_RuleText(b) ==
  IF Contains(b, ".") /\ Contains(b, ",")
  THEN IF C2_DotFirst(b) THEN C2_CommaAsPoint(C2_Without(b, ".")) ELSE C2_Without(b, ",")
  ELSE IF Contains(b, ",") THEN C2_CommaAsPoint(b) ELSE C2_Without(b, ".")

\* the text is head, then a body of digits and separators, then tail
C2_Splits(s, head, tail) ==
  /\ Len(s) >= Len(head) + Len(tail)
  /\ SubSeq(s, 1, Len(head)) = head
  /\ SubSeq(s, Len(s) - Len(tail) + 1, Len(s)) = tail
  /\ \A i \in (Len(head) + 1)..(Len(s) - Len(tail)) : s[i] \in Digits \/ C2_Separator(s[i])

C2_Body(s, head, tail) == SubSeq(s, Len(head) + 1, Len(s) - Len(tail))

C2_Is(text, value) == (Returned /\ val = StrCell(text)) => price = value

\* C2: a text of digits, '.' and ',' with an optional currency token in any
\* letter case and padding parses by the separator rule: '.' before ',' makes
\* '.' thousands and ',' the decimal point, ',' before '.' removes every ',',
\* a lone ',' is the decimal point, lone '.'s are removed; the token's case
\* does not change the result.
C2_SeparatorRule ==
  /\ (Returned /\ val.t = "str") =>
       \A pre \in Pads, tok \in Tokens, sep \in Pads, post \in Pads :
         \A cut \in {<<pre \o tok \o sep, post>>, <<pre, sep \o tok \o post>>} :
           C2_Splits(val.s, cut[1], cut[2]) =>
             LET text == C2_RuleText(C2_Body(val.s, cut[1], cut[2]))
             IN ParseFloat(text) # ValueError => price = ParseFloat(text)
  /\ C2_Is(t1400_50, Fin(140050, 100))
  /\ C2_Is(t1234_56, Fin(123456, 100))
  /\ C2_Is(t2_115, Fin(2115, 1000))
  /\ C2_Is(t1_500, Fin(1500, 1))
  /\ \A tok \in {S_ARS, S_ars, S_Ars} : C2_Is(tok \o <<" ">> \o t1000_00, Fin(1000, 1))

C2_Witness ==
  /\ Returned /\ val = StrCell(S_Ars \o <<" ">> \o t2_115)
  /\ price = Fin(2115, 1000)

C3_Blank(s) == \A i \in 1..Len(s) : s[i] = " "
C3_Placeholder(s) ==
  \E i \in 1..Len(s) : s[i] = "-" /\ \A j \in 1..Len(s) : j # i => s[j] = " "
C3_Count(s, ch) == Cardinality({i \in 1..Len(s) : s[i] = ch})
\* digits and at least two commas: two decimal points after the substitution
C3_TwoPoints(s) ==
  /\ \A i \in 1..Len(s) : s[i] \in Digits \/ s[i] = ","
  /\ C3_Count(s, ",") >= 2
\* a letter that belongs to no currency token
C3_StrayLetter(s) ==
  Contains(s, "A") /\ ~Contains(s, "R") /\ ~Contains(s, "r")

\* C3: clean_price returns a number or the sentinel None and never raises; it
\* returns None for a missing, blank or '-' cell and for a text that is not a
\* number after cleaning.
C3_Total ==
  Returned =>
    /\ IsNumber(price) \/ price = None
    /\ IsNa(val) => price = None
    /\ (val.t = "str" /\ (C3_Blank(val.s) \/ C3_Placeholder(val.s)
                            \/ C3_TwoPoints(val.s) \/ C3_StrayLetter(val.s)))
         => price = None

C3_Witness ==
  Returned /\ val = StrCell(t1_1_1) /\ price = None

\* ------------------------------------------------------------------ claim on extract_ticker

C4_BeforePipe(s) ==
  LET n == CHOOSE m \in 0..Len(s) :
             /\ \A i \in 1..m : s[i] # "|"
             /\ m = Len(s) \/ s[m + 1] = "|"
  IN SubSeq(s, 1, n)

C4_Trimmed(s) ==
  LET ink == {i \in 1..Len(s) : s[i] # " "}
  IN IF ink = {} THEN <<>>
     ELSE SubSeq(s, CHOOSE i \in ink : \A j \in ink : i <= j,
                    CHOOSE i \in ink : \A j \in ink : i >= j)

C4_Is(text, foreign, result) ==
  (Returned /\ simbolo_str = StrCell(text) /\ is_usd_file = foreign)
     => ticker = StrCell(result)

\* C4: extract_ticker returns the trimmed text before the first '|'; on a
\* foreign listing exactly one trailing 'D' is dropped, on a local listing
\* nothing is; a missing symbol gives None.
C4_Ticker ==
  /\ (Returned /\ simbolo_str.t = "str") =>
       LET base == C4_Trimmed(C4_BeforePipe(simbolo_str.s))
       IN IF is_usd_file /\ base # <<>> /\ base[Len(base)] = "D"
          THEN ticker = StrCell(SubSeq(base, 1, Len(base) - 1))
          ELSE ticker = StrCell(base)
  /\ (Returned /\ IsNa(simbolo_str)) => ticker = NoneCell
  /\ C4_Is(sAAPLD, TRUE, <<"A", "A", "P", "L">>)
  /\ C4_Is(sADDD, TRUE, <<"A", "D", "D">>)
  /\ C4_Is(sGGAL, FALSE, <<"G", "G", "A", "L">>)
  /\ C4_Is(sAMD, FALSE, sAMD)

C4_Witness ==
  /\ Returned /\ simbolo_str = StrCell(sADDD) /\ is_usd_file
  /\ ticker = StrCell(<<"A", "D", "D">>)

\* ------------------------------------------------------------------ claim on find_header_row

\* the cells of MarkerCells that hold 'Símbolo' in some letter case
C9_Marked(row) ==
  \E j \in 1..Len(row) : row[j] \in {StrCell(cSimbolo), StrCell(cSIMBOLO), StrCell(cSimbolos)}

\* C9: find_header_row returns the index of the topmost row with a cell that
\* contains 'Símbolo' (any letter case), 0 when there is none, and so 0 on a
\* grid whose first row is the header.
C9_HeaderRow ==
  Returned =>
    /\ (\E i \in 1..Len(df) : C9_Marked(df[i])) =>
         /\ header_idx + 1 \in 1..Len(df)
         /\ C9_Marked(df[header_idx + 1])
         /\ \A i \in 1..header_idx : ~C9_Marked(df[i])
    /\ (\A i \in 1..Len(df) : ~C9_Marked(df[i])) => header_idx = 0
    /\ (df # <<>> /\ df[1][1] = StrCell(cSimbolo)) => header_idx = 0

C9_Witness ==
  /\ Returned /\ Len(df) = 2 /\ header_idx = 1
  /\ ~C9_Marked(df[1]) /\ df[2][1] = StrCell(cSIMBOLO)

\* ------------------------------------------------------------------ claims on the script

Analysed == pc \in {"show", "shown"}

\* C5: no analysis row has a zero foreign price: every row has
\* Precio_USD > 0 and a finite implied rate.
C5_ForeignPositive ==
  Analysed =>
    \A i \in 1..Len(df_merged) :
      /\ Sign(df_merged[i].Precio_USD) > 0
      /\ IsFin(df_merged[i].TC_Implicito)

C6_Count(rows, t) == Cardinality({i \in 1..Len(rows) : rows[i].Ticker = t})
C6_Tickers(rows) == {rows[i].Ticker : i \in 1..Len(rows)}

\* C6: the matched rows of a ticker number (local rows of it) x (foreign rows
\* of it): duplicates are kept as the cross-product, a ticker of one side only
\* has no matched row.
C6_InnerJoin ==
  Analysed =>
    \A t \in C6_Tickers(df_ars.rows) \cup C6_Tickers(df_usd.rows) \cup C6_Tickers(df_merged) :
      C6_Count(df_merged, t) = C6_Count(df_ars.rows, t) * C6_Count(df_usd.rows, t)

C6_Witness ==
  /\ Analysed
  /\ \E t \in C6_Tickers(df_merged) :
       /\ C6_Count(df_ars.rows, t) = 2 /\ C6_Count(df_usd.rows, t) = 2
       /\ C6_Count(df_merged, t) = 4

C7_Labels(rows) == {rows[i].index : i \in 1..Len(rows)}
C7_Negative(rows) == {rows[i].index : i \in {j \in 1..Len(rows) : Sign(rows[j].Gap) < 0}}
C7_Positive(rows) == {rows[i].index : i \in {j \in 1..Len(rows) : Sign(rows[j].Gap) > 0}}

\* gap = ((local / foreign) / reference - 1) * 100, cross-multiplied
C7_GapEquation(r, mep) ==
  r.Gap.n * (r.Precio_ARS.d * r.Precio_USD.n * mep.n)
    = r.Gap.d * 100 * (r.Precio_ARS.n * r.Precio_USD.d * mep.d
                         - r.Precio_ARS.d * r.Precio_USD.n * mep.n)

\* C7: gap_percent = ((implied_rate / reference_rate) - 1) * 100 with
\* implied_rate = local / foreign; the gap is negative exactly when the implied
\* rate is below the reference and positive exactly when above (1000 / 1
\* against 900 gives about 11.11); the 'cheaper' view holds exactly the rows
\* of negative gap and the 'more expensive' view those of positive gap.
C7_GapSign ==
  /\ Analysed =>
       \A i \in 1..Len(df_merged) :
         LET r == df_merged[i] IN
           /\ (Sign(r.Precio_USD) # 0 /\ Sign(dolar_mep_manual) # 0) =>
                /\ IsFin(r.Gap) /\ C7_GapEquation(r, dolar_mep_manual)
                /\ r.TC_Implicito.n * r.Precio_ARS.d * r.Precio_USD.n
                     = r.TC_Implicito.d * r.Precio_ARS.n * r.Precio_USD.d
           /\ Sign(r.Gap) < 0 <=> FLt(r.TC_Implicito, dolar_mep_manual)
           /\ Sign(r.Gap) > 0 <=> FGt(r.TC_Implicito, dolar_mep_manual)
           /\ (r.Precio_ARS = Fin(1000, 1) /\ r.Precio_USD = Fin(1, 1)
                 /\ dolar_mep_manual = Fin(900, 1)) =>
                /\ r.TC_Implicito = Fin(1000, 1)
                /\ 1111 * r.Gap.d <= 100 * r.Gap.n /\ 100 * r.Gap.n < 1112 * r.Gap.d
  /\ (pc = "shown" /\ filtro = MasBaratos) => C7_Labels(df_show) = C7_Negative(df_merged)
  /\ (pc = "shown" /\ filtro = MasCaros) => C7_Labels(df_show) = C7_Positive(df_merged)

C7_Witness ==
  /\ pc = "shown" /\ filtro = MasBaratos /\ dolar_mep_manual = Fin(1000, 1)
  /\ Len(df_show) = 1 /\ Len(df_merged) = 4
  /\ df_show[1].Precio_ARS = Fin(900, 1) /\ df_show[1].Gap = Fin(-10, 1)

\* ------------------------------------------------------------------ claims on load_and_process

\* the loads made so far: the file, its tag and what load_and_process gave
Loads ==
  {l \in {[file |-> file_ars, archivo |-> "ARS", out |-> df_ars],
          [file |-> file_usd, archivo |-> "USD", out |-> df_usd]} : l.out # Unset}

\* the header row load_and_process used, and its trimmed text cells
UsedHeader(file) == file[find_header_row(file) + 1]
TrimmedNames(file) ==
  {Strip(UsedHeader(file)[j].s) : j \in {i \in 1..Len(UsedHeader(file)) : UsedHeader(file)[i].t = "str"}}
Missing(file) == {cSimbolo, cUltimoPrecio} \ TrimmedNames(file)

\* C8: load_and_process fails with the missing-column error exactly when
\* 'Símbolo' or 'Último Precio' is absent from the trimmed column names of the
\* header row; the error names the file and the columns that are missing; the
\* other file is still loaded, and no table is made unless both loads succeed.
C8_MissingColumnError ==
  /\ \A l \in Loads :
       /\ l.out.st = "None" <=> Missing(l.file) # {}
       /\ l.out.st = "None" =>
            l.out.error = {[columnas |-> Missing(l.file), archivo |-> l.archivo]}
  /\ (df_ars.st = "None" /\ pc \in {"merge", "done", "crashed"}) => df_usd # Unset
  /\ Analysed => (df_ars.st = "df" /\ df_usd.st = "df")

\* C10: a file none of whose rows holds 'Símbolo' (any letter case) gets the
\* missing-column failure and gives no records; a load that succeeds used a
\* header row with a cell that trims to exactly 'Símbolo'.
C10_NoHeaderNoLoad ==
  \A l \in Loads :
    /\ (\A i \in 1..Len(l.file) : ~RowHasMarker(l.file[i])) =>
         (l.out.st = "None" /\ l.out.rows = <<>> /\ l.out.error # {})
    /\ l.out.st = "df" => cSimbolo \in TrimmedNames(l.file)

====
